---------------------------- MODULE Spec2Model ----------------------------
(***************************************************************************)
(* Smart Fence Guardian 2.0 (src/Smartfenceguardian2.0.py).                *)
(*                                                                         *)
(* The program is a Streamlit script: the whole file runs top to bottom    *)
(* once per refresh, and st.session_state["events"] is the only value that *)
(* survives from one run to the next.  One run is the action Refresh.      *)
(*                                                                         *)
(* Units.  Amplitudes are integers in thousandths (Scale), sample times in *)
(* microseconds, distances in thousandths of a km before rounding and in   *)
(* hundredths after it, the wall clock in seconds of the day.  Text is a   *)
(* sequence of one-character strings.                                      *)
(***************************************************************************)
EXTENDS Integers, Sequences, FiniteSets, TLC

(***************************************************************************)
(* Bounds of the model.                                                    *)
(***************************************************************************)
\* Script runs explored in one session.
MaxRefresh == 3
\* Largest magnitude, in standard deviations, of one np.random.randn draw.
MaxSigma == 12

Scale == 10 * 10 * 10

(***************************************************************************)
(* Text.                                                                   *)
(***************************************************************************)
None == <<>>

Digit(d) == <<"0", "1", "2", "3", "4", "5", "6", "7", "8", "9">>[d + 1]

IsDigit(c) == c \in {"0", "1", "2", "3", "4", "5", "6", "7", "8", "9"}

RECURSIVE Join(_, _)
Join(fields, sep) ==
    IF fields = <<>> THEN <<>>
    ELSE IF Len(fields) = 1 THEN fields[1]
    ELSE fields[1] \o sep \o Join(Tail(fields), sep)

(***************************************************************************)
(* CONFIG (lines 16-20).                                                   *)
(***************************************************************************)
feeders ==
    << <<"F", "e", "e", "d", "e", "r", "-", "1">>,
       <<"F", "e", "e", "d", "e", "r", "-", "2">>,
       <<"F", "e", "e", "d", "e", "r", "-", "3">> >>

substations ==
    << <<"S", "u", "b", "s", "t", "a", "t", "i", "o", "n", "-", "A">>,
       <<"S", "u", "b", "s", "t", "a", "t", "i", "o", "n", "-", "B">> >>

(***************************************************************************)
(* SIMULATION HELPERS (lines 25-35).                                       *)
(***************************************************************************)
\* fs = 20000
fs == 20000
\* The 0.04 of np.linspace(0, 0.04, fs), in milliseconds.
WindowMs == 40
WindowUs == WindowMs * Scale
\* The 50 of np.sin(2*np.pi*50*t).
MainsHz == 50
\* pulse[500:800]
PulseStart == 500
PulseStop == 800
\* 8 + np.random.rand() * 2
PulseBase == 8
PulseSpan == 2
\* The 0.02 of 0.02*np.random.randn(len(t)), in thousandths.
NoiseScale == (2 * Scale) \div 100

\* np.linspace(start, stop, num): num points, the last one equal to stop
\* (endpoint=True is numpy's default).  A record of the array's length and of
\* the function giving its points, here in microseconds from 0.
linspace_len(num) == num
linspace_at(stopUs, num, i) == (i * stopUs) \div (num - 1)

\* t = np.linspace(0, 0.04, fs)
t_len == linspace_len(fs)
t(i) == linspace_at(WindowUs, fs, i)

\* sin(pi * p / q) in thousandths, for integers p >= 0 and q > 0, by
\* Bhaskara's rational approximation 16x(pi-x) / (5pi^2 - 4x(pi-x)) on each
\* half period (absolute error below 0.002).
SinPi(p, q) ==
    LET k == p \div q
        h == p % q
        m == h * (q - h)
        v == (16 * m) \div ((5 * q * q - 4 * m) \div Scale)
    IN  IF k % 2 = 0 THEN v ELSE -v

\* The half periods of the mains sine in the window: 2 * 50 Hz * 0.04 s.
HalfCycles == (2 * MainsHz * WindowMs) \div Scale

\* base = np.sin(2*np.pi*50*t): 2*50*t[i] = HalfCycles * i / (fs - 1).
base(i) == SinPi(HalfCycles * i, fs - 1)

\* One draw of noise = 0.02*np.random.randn(len(t)): len(t) independent
\* values.  A draw is described by the value of its even-indexed and of its
\* odd-indexed samples, each at one of the two extremes a randn value can
\* take; the maximum of any other draw lies between the maxima of the
\* all-low and the all-high draw.
NoiseLevels == {-(NoiseScale * MaxSigma), NoiseScale * MaxSigma}
NoiseDraws == NoiseLevels \X NoiseLevels
noise(nz, i) == IF i % 2 = 0 THEN nz[1] ELSE nz[2]

\* np.random.rand() * 2 lies in [0, 2): the thousandths 0 .. 1999.
PulseJitters == {0, PulseSpan * Scale - 1}

\* The pulse with the slice bounds swapped, pulse[800:500]: an empty slice.
pulse_swapped_slice(amp, i) == IF i >= PulseStop /\ i < PulseStart THEN amp ELSE 0

\* pulse = np.zeros_like(t); pulse[500:800] = 8 + np.random.rand() * 2
pulse(amp, i) == IF i >= PulseStart /\ i < PulseStop THEN amp ELSE 0

\* simulate_signal(unauth): the returned array, described by what it was
\* drawn from; its samples are sample(sig, i) for i in 0 .. sig.n - 1.
simulate_signal(unauth, jitter, nz) ==
    [n |-> t_len,
     unauth |-> unauth,
     amp |-> IF unauth THEN PulseBase * Scale + jitter ELSE 0,
     noise |-> nz]

sample(sig, i) ==
    IF sig.unauth
    THEN base(i) + noise(sig.noise, i) + pulse(sig.amp, i)
    ELSE base(i) + noise(sig.noise, i)

\* Every array simulate_signal can return within the bounds.
Signals ==
    {simulate_signal(FALSE, 0, nz) : nz \in NoiseDraws}
    \cup {simulate_signal(TRUE, j, nz) : j \in PulseJitters, nz \in NoiseDraws}

Max2(a, b) == IF a >= b THEN a ELSE b

RECURSIVE MaxOn(_, _, _)
MaxOn(sig, lo, hi) ==
    IF lo = hi THEN sample(sig, lo)
    ELSE LET mid == (lo + hi) \div 2
         IN  Max2(MaxOn(sig, lo, mid), MaxOn(sig, mid + 1, hi))

\* np.max(signal), computed once for each array.
MaxTable == [sig \in Signals |-> MaxOn(sig, 0, sig.n - 1)]
np_max(sig) == MaxTable[sig]


(***************************************************************************)
(* RMS TREND (lines 113-116).                                              *)
(***************************************************************************)
\* window = 500
window == 500

NaN == 0 - 1

\* np.sqrt on the integers: the floor of the root, nan below zero.
RECURSIVE SqrtOn(_, _, _)
SqrtOn(x, lo, hi) ==
    IF lo = hi THEN lo
    ELSE LET mid == (lo + hi + 1) \div 2
         IN  IF mid * mid <= x THEN SqrtOn(x, mid, hi) ELSE SqrtOn(x, lo, mid - 1)

np_sqrt(x) == IF x < 0 THEN NaN ELSE SqrtOn(x, 0, 46340)

\* np.convolve(a, v, mode="full") has len(a) + len(v) - 1 values.
convolve_len_full(n, m) == n + m - 1

Min2(a, b) == IF a <= b THEN a ELSE b

\* np.convolve(a, v, mode="valid") has max(n, m) - min(n, m) + 1 values.
convolve_len(n, m) == Max2(n, m) - Min2(n, m) + 1

\* Value k of np.convolve(signal**2, np.ones(window)/window, mode="valid"):
\* the squares of samples k .. k + window - 1, each weighted 1/window.
RECURSIVE ConvolveOn(_, _, _)
ConvolveOn(sig, lo, hi) ==
    IF lo = hi THEN (sample(sig, lo) * sample(sig, lo)) \div window
    ELSE LET mid == (lo + hi) \div 2
         IN  ConvolveOn(sig, lo, mid) + ConvolveOn(sig, mid + 1, hi)

convolve_at(sig, k) == ConvolveOn(sig, k, k + window - 1)

\* The indices of rms_vals the model inspects: both ends, the windows that
\* enter, cover and leave the pulse, and the window centred on the last
\* trough of the sine.
RmsProbes ==
    {0, PulseStart - window + 1, PulseStart, PulseStop - 1,
     (7 * (fs - 1)) \div 8 - window \div 2, convolve_len(t_len, window) - 1}

RmsTable == [sig \in Signals, k \in RmsProbes |-> np_sqrt(convolve_at(sig, k))]

\* rms_vals = np.sqrt(np.convolve(signal**2, np.ones(window)/window,
\* mode="valid")): its length, and its value at the inspected index.
rms_trend(sig, k) ==
    [len |-> convolve_len(sig.n, window), at |-> k, val |-> RmsTable[sig, k]]

(***************************************************************************)
(* detect_event (lines 37-49).                                             *)
(***************************************************************************)
sTime == <<"t", "i", "m", "e">>
sSubstation == <<"s", "u", "b", "s", "t", "a", "t", "i", "o", "n">>
sFeeder == <<"f", "e", "e", "d", "e", "r">>
sLocation == <<"l", "o", "c", "a", "t", "i", "o", "n">>
sStatus == <<"s", "t", "a", "t", "u", "s">>
sKm == <<" ", "k", "m">>
sUnauthorizedFence == <<"U", "n", "a", "u", "t", "h", "o", "r", "i", "z", "e", "d", " ", "F", "e", "n", "c", "e">>

DaySeconds == 24 * 60 * 60

Two(v) == <<Digit(v \div 10), Digit(v % 10)>>

\* time.strftime("%H:%M:%S") at second `clock` of the day.
strftime(clock) ==
    Two(clock \div 3600) \o <<":">> \o Two((clock \div 60) % 60) \o <<":">>
        \o Two(clock % 60)

\* The decimal digits of a natural number.
RECURSIVE Digits(_)
Digits(v) == IF v < 10 THEN <<Digit(v)>> ELSE Digits(v \div 10) \o <<Digit(v % 10)>>

\* random.uniform(0.5, 2.5) in thousandths of a km: both ends can be drawn.
LocationLow == 500
LocationHigh == 2500
RawLocations == {LocationLow, 1234, LocationHigh}

\* round(x, 3), in thousandths: the value as drawn.
round3(raw) == raw

\* round(x, 2): thousandths to the nearest hundredth.
round2(raw) == ((raw + 5) \div 10) * 10

\* str() of a float that is a whole number of hundredths, given in
\* thousandths: the shortest decimal that reads back as the same float, so
\* at least one digit after the point and no trailing zero beyond it.
float_str(v) ==
    LET whole == v \div Scale
        frac == v % Scale
    IN  Digits(whole) \o <<".">> \o
        ( IF frac % 100 = 0 THEN <<Digit(frac \div 100)>>
          ELSE IF frac % 10 = 0 THEN <<Digit(frac \div 100), Digit((frac \div 10) % 10)>>
          ELSE <<Digit(frac \div 100), Digit((frac \div 10) % 10), Digit(frac % 10)>> )

\* location_km = round(random.uniform(0.5, 2.5), 2)
location_km_unrounded(raw) == round3(raw)

location_km(raw) == round2(raw)

\* A threshold of 0.3, which the mains sine alone exceeds.
threshold_tenth == (3 * Scale) \div 10

\* The 3.0 of np.max(signal) > 3.0.
threshold == 3 * Scale

\* detect_event(signal); d holds what the random module and the clock give.
detect_event(sig, d, clock) ==
    IF np_max(sig) > threshold
    THEN [time |-> strftime(clock),
          substation |-> substations[d.substation],
          feeder |-> feeders[d.feeder],
          location |-> float_str(location_km(d.rawLoc)) \o sKm,
          status |-> sUnauthorizedFence]
    ELSE None

\* Python's truth value of detect_event's result: None is false, and a dict
\* with keys is true.
truthy(ev) == ev # None

(***************************************************************************)
(* SIDEBAR CONTROLS (lines 55-61).  show_fft and show_psd only choose      *)
(* whether two plots of the signal are drawn and are left out.             *)
(***************************************************************************)
DefaultControls ==
    [unauth |-> FALSE, show_rms |-> TRUE, show_heatmap |-> TRUE,
     send_sms |-> TRUE, sound_alarm |-> TRUE]

(***************************************************************************)
(* DETECTION & ALERTS (lines 126-134).                                     *)
(***************************************************************************)
\* events.append(event): the new record put last.
insert_last(log, ev) == log \o <<ev>>

\* st.session_state["events"].insert(0, event)
insert0(log, ev) == <<ev>> \o log

\* The block with the alerts shown for every run, whatever was detected.
alerts_unguarded(ev, c) ==
    [error |-> truthy(ev),
     sms |-> c.send_sms,
     siren |-> c.sound_alarm,
     success |-> ~truthy(ev)]

\* The widgets the block writes.
alerts(ev, c) ==
    IF truthy(ev)
    THEN [error |-> TRUE, sms |-> c.send_sms, siren |-> c.sound_alarm,
          success |-> FALSE]
    ELSE [error |-> FALSE, sms |-> FALSE, siren |-> FALSE, success |-> TRUE]

\* The block with the log emptied before the insert.
logged_alone(log, ev) == IF truthy(ev) THEN insert0(<<>>, ev) ELSE log

\* The session's log as the block leaves it.
logged(log, ev) == IF truthy(ev) THEN insert0(log, ev) ELSE log

(***************************************************************************)
(* EVENT HISTORY + HEATMAP (lines 147-163).                                *)
(***************************************************************************)
\* The keys of an event dict, in the order detect_event writes them.
Columns == <<sTime, sSubstation, sFeeder, sLocation, sStatus>>

row_of(ev) == <<ev.time, ev.substation, ev.feeder, ev.location, ev.status>>

\* pd.DataFrame(list of dicts): the columns are the dicts' keys, the rows
\* are the dicts in the list's order.
DataFrame(log) ==
    [columns |-> Columns, rows |-> [i \in 1..Len(log) |-> row_of(log[i])]]

\* df["feeder"].value_counts(): for each feeder in the frame, its rows.
value_counts(df) ==
    [f \in {df.rows[i][3] : i \in 1..Len(df.rows)} |->
        Cardinality({i \in 1..Len(df.rows) : df.rows[i][3] = f})]

\* csv.QUOTE_MINIMAL: a field holding the delimiter, the quote character or
\* a line break is written in quotes, its quotes doubled.
RECURSIVE DoubleQuotes(_)
DoubleQuotes(f) ==
    IF f = <<>> THEN <<>>
    ELSE (IF Head(f) = "\"" THEN <<"\"", "\"">> ELSE <<Head(f)>>)
             \o DoubleQuotes(Tail(f))

csv_field(f) ==
    IF \E i \in 1..Len(f) : f[i] \in {",", "\"", "\n"}
    THEN <<"\"">> \o DoubleQuotes(f) \o <<"\"">>
    ELSE f

csv_line(fields) ==
    Join([i \in 1..Len(fields) |-> csv_field(fields[i])], <<",">>) \o <<"\n">>

RECURSIVE csv_lines(_)
csv_lines(rows) ==
    IF rows = <<>> THEN <<>> ELSE csv_line(Head(rows)) \o csv_lines(Tail(rows))

\* df.to_csv(): index=True is the default, which writes the row number as
\* a first, unnamed column.
to_csv_with_index(df) ==
    csv_line(<< <<>> >> \o df.columns)
        \o csv_lines([i \in 1..Len(df.rows) |-> <<Digits(i - 1)>> \o df.rows[i]])

\* df.to_csv(index=False): the header line, then one line for each row.
to_csv(df) == csv_line(df.columns) \o csv_lines(df.rows)

\* The characters the program writes and their code points.
Ascii ==
    <<
       <<"\n", 10>>, <<" ", 32>>, <<"\"", 34>>, <<",", 44>>, <<"-", 45>>,
       <<".", 46>>, <<"0", 48>>, <<"1", 49>>, <<"2", 50>>, <<"3", 51>>,
       <<"4", 52>>, <<"5", 53>>, <<"6", 54>>, <<"7", 55>>, <<"8", 56>>,
       <<"9", 57>>, <<":", 58>>, <<"A", 65>>, <<"B", 66>>, <<"F", 70>>,
       <<"S", 83>>, <<"U", 85>>, <<"a", 97>>, <<"b", 98>>, <<"c", 99>>,
       <<"d", 100>>, <<"e", 101>>, <<"f", 102>>, <<"h", 104>>, <<"i", 105>>,
       <<"k", 107>>, <<"l", 108>>, <<"m", 109>>, <<"n", 110>>, <<"o", 111>>,
       <<"r", 114>>, <<"s", 115>>, <<"t", 116>>, <<"u", 117>>, <<"z", 122>> >>

ord ==
    [c \in {Ascii[k][1] : k \in 1..Len(Ascii)} |->
        Ascii[CHOOSE k \in 1..Len(Ascii) : Ascii[k][1] = c][2]]

chr ==
    [b \in {Ascii[k][2] : k \in 1..Len(Ascii)} |->
        Ascii[CHOOSE k \in 1..Len(Ascii) : Ascii[k][2] = b][1]]

\* str.encode('utf-8'): every character written is below U+0080, one byte.
encode_utf8(str) == [i \in 1..Len(str) |-> ord[str[i]]]

\* The file the download button offers.
export(df) == encode_utf8(to_csv(df))

\* The widgets the block writes.
history(log, c) ==
    IF Len(log) > 0
    THEN LET df_events == DataFrame(log)
         IN  [table |-> df_events,
              feeder_counts |->
                  IF c.show_heatmap THEN value_counts(df_events) ELSE None,
              csv |-> export(df_events),
              no_events |-> FALSE]
    ELSE [table |-> None, feeder_counts |-> None, csv |-> None,
          no_events |-> TRUE]

(***************************************************************************)
(* One run of the script.                                                  *)
(***************************************************************************)
\* The script with the history block moved above the detection block.
script_history_first(log, c, d, clock) ==
    LET sig == simulate_signal(c.unauth, d.jitter, d.noise)
        ev == detect_event(sig, d, clock)
    IN  [signal |-> sig,
         event |-> ev,
         rms_vals |-> IF c.show_rms THEN rms_trend(sig, d.probe) ELSE None,
         alerts |-> alerts(ev, c),
         history |-> history(log, c),
         events |-> logged(log, ev)]

\* Lines 66-163 in order: what a run computes and draws from the session's
\* log, the controls and the values the random module and the clock give.
script(log, c, d, clock) ==
    LET sig == simulate_signal(c.unauth, d.jitter, d.noise)
        ev == detect_event(sig, d, clock)
        after == logged(log, ev)
    IN  [signal |-> sig,
         event |-> ev,
         rms_vals |-> IF c.show_rms THEN rms_trend(sig, d.probe) ELSE None,
         alerts |-> alerts(ev, c),
         events |-> after,
         history |-> history(after, c)]

(***************************************************************************)
(* State.                                                                  *)
(***************************************************************************)
VARIABLES
    events,      \* st.session_state["events"]
    now,         \* the wall clock, in seconds of the day
    controls,    \* the sidebar's checkboxes as the last run read them
    signal,      \* the last run's signal
    event,       \* the last run's detect_event(signal)
    rms_vals,    \* the last run's rms_vals, None when show_rms is off
    ui,          \* the widgets the last run wrote
    nRefresh,    \* runs so far
    nTriggered,  \* runs so far in which detect_event returned an event
    lastEvent    \* the event of the last such run

vars ==
    <<events, now, controls, signal, event, rms_vals, ui, nRefresh,
      nTriggered, lastEvent>>

\* The session opens at 09:59:58.
StartClock == (9 * 60 + 59) * 60 + 58

\* Lines 19-20: a new session has an empty log; nothing has run yet.
Init ==
    /\ events = <<>>
    /\ now = StartClock
    /\ controls = DefaultControls
    /\ signal = None
    /\ event = None
    /\ rms_vals = None
    /\ ui = None
    /\ nRefresh = 0
    /\ nTriggered = 0
    /\ lastEvent = None

\* One run of the script with the checkboxes at c and the draws d.  The
\* first run of a session reads every checkbox at its default.
Refresh(c, d) ==
    /\ nRefresh < MaxRefresh
    /\ nRefresh = 0 => c = DefaultControls
    /\ \E run \in {script(events, c, d, (now + d.dt) % DaySeconds)} :
           /\ now' = (now + d.dt) % DaySeconds
           /\ controls' = c
           /\ signal' = run.signal
           /\ event' = run.event
           /\ rms_vals' = run.rms_vals
           /\ events' = run.events
           /\ ui' = [error |-> run.alerts.error,
                     success |-> run.alerts.success,
                     sms |-> run.alerts.sms,
                     siren |-> run.alerts.siren,
                     table |-> run.history.table,
                     feeder_counts |-> run.history.feeder_counts,
                     csv |-> run.history.csv,
                     no_events |-> run.history.no_events]
           /\ nRefresh' = nRefresh + 1
           /\ nTriggered' = IF truthy(run.event) THEN nTriggered + 1 ELSE nTriggered
           /\ lastEvent' = IF truthy(run.event) THEN run.event ELSE lastEvent

(***************************************************************************)
(* Specifications.  Both run the same action; each explores one part of    *)
(* what a run can read and draw, the other part held at one value.         *)
(***************************************************************************)
\* Seconds that pass between two runs.
Ticks == {0, 1}

\* The history part: every feeder, substation and location a second after
\* the run before, the nearest location also within the same second; the
\* pulse and the feeder chart switched on and off.
HistoryControls ==
    {[DefaultControls EXCEPT !.unauth = u, !.show_heatmap = h] :
        u \in BOOLEAN, h \in BOOLEAN}

HistoryDraws ==
    {d \in [jitter : {0},
            noise : {<<NoiseScale * MaxSigma, -(NoiseScale * MaxSigma)>>},
            probe : {0},
            feeder : 1..Len(feeders),
            substation : 1..Len(substations),
            rawLoc : RawLocations,
            dt : Ticks] :
        d.dt = 0 => d.rawLoc = LocationLow}

Next == \E c \in HistoryControls, d \in HistoryDraws : Refresh(c, d)

Spec == Init /\ [][Next]_vars

\* The signal part: every pulse amplitude, noise draw and inspected RMS
\* index, the pulse and the RMS plot switched on and off.
SignalControls ==
    {[DefaultControls EXCEPT !.unauth = u, !.show_rms = r] :
        u \in BOOLEAN, r \in BOOLEAN}

SignalDraws ==
    [jitter : PulseJitters,
     noise : NoiseDraws,
     probe : RmsProbes,
     feeder : {1},
     substation : {1},
     rawLoc : {LocationLow},
     dt : {1}]

SignalNext == \E c \in SignalControls, d \in SignalDraws : Refresh(c, d)

SignalSpec == Init /\ [][SignalNext]_vars

\* The alert part: the pulse and the two alerts switched on and off, every
\* feeder and substation.
AlertControls ==
    {[DefaultControls EXCEPT !.unauth = u, !.send_sms = s, !.sound_alarm = a] :
        u \in BOOLEAN, s \in BOOLEAN, a \in BOOLEAN}

AlertDraws ==
    [jitter : {0},
     noise : {<<NoiseScale * MaxSigma, -(NoiseScale * MaxSigma)>>},
     probe : {0},
     feeder : 1..Len(feeders),
     substation : 1..Len(substations),
     rawLoc : {LocationLow},
     dt : {1}]

AlertNext == \E c \in AlertControls, d \in AlertDraws : Refresh(c, d)

AlertSpec == Init /\ [][AlertNext]_vars

(***************************************************************************)
(* Readers used to state the properties.                                   *)
(***************************************************************************)
\* A CSV reader: bytes to characters, lines split at line breaks and fields
\* at commas outside quotes, a doubled quote inside quotes read as one.
decode_utf8(bytes) == [i \in 1..Len(bytes) |-> chr[bytes[i]]]

\* The positions lo..hi of str holding sep outside quotes; quotes is the set
\* of positions holding a quote character.
Cuts(str, quotes, sep, lo, hi) ==
    {i \in lo..hi :
        str[i] = sep /\ Cardinality({j \in quotes : j < i}) % 2 = 0}

\* The k-th smallest member of a set of numbers.
Kth(set, k) == CHOOSE e \in set : Cardinality({o \in set : o < e}) = k - 1

\* The ranges <<first, last>> that the cuts leave of lo..hi, in order.
Pieces(cuts, lo, hi) ==
    [k \in 1..(Cardinality(cuts) + 1) |->
        << IF k = 1 THEN lo ELSE Kth(cuts, k - 1) + 1,
           IF k = Cardinality(cuts) + 1 THEN hi ELSE Kth(cuts, k) - 1 >>]

RECURSIVE Undouble(_)
Undouble(f) ==
    IF f = <<>> THEN <<>>
    ELSE IF Len(f) >= 2 /\ f[1] = "\"" /\ f[2] = "\""
    THEN <<"\"">> \o Undouble(SubSeq(f, 3, Len(f)))
    ELSE <<Head(f)>> \o Undouble(Tail(f))

Unquote(f) ==
    IF f # <<>> /\ f[1] = "\"" THEN Undouble(SubSeq(f, 2, Len(f) - 1)) ELSE f

read_line(str, quotes, lo, hi) ==
    LET fields == Pieces(Cuts(str, quotes, ",", lo, hi), lo, hi)
    IN  [k \in 1..Len(fields) |-> Unquote(SubSeq(str, fields[k][1], fields[k][2]))]

\* The text ends with a line break, which closes the last line.
read_csv(bytes) ==
    LET str == decode_utf8(bytes)
        quotes == {j \in 1..Len(str) : str[j] = "\""}
        breaks == Cuts(str, quotes, "\n", 1, Len(str))
        lines == Pieces(breaks, 1, Len(str))
        count == IF Len(str) \in breaks THEN Len(lines) - 1 ELSE Len(lines)
        table == [k \in 1..count |-> read_line(str, quotes, lines[k][1], lines[k][2])]
    IN  [columns |-> Head(table), rows |-> Tail(table)]

DigitValue(c) == CHOOSE v \in 0..9 : Digit(v) = c

RECURSIVE Number(_)
Number(ds) ==
    IF ds = <<>> THEN 0 ELSE 10 * Number(SubSeq(ds, 1, Len(ds) - 1)) + DigitValue(ds[Len(ds)])

\* loc is digits, a point, k digits and " km".
LocationShape(loc, k) ==
    \E p \in 2..Len(loc) :
        /\ loc[p] = "."
        /\ Len(loc) = p + k + Len(sKm)
        /\ \A i \in (1..(p - 1)) \cup ((p + 1)..(p + k)) : IsDigit(loc[i])
        /\ SubSeq(loc, p + k + 1, Len(loc)) = sKm

\* The number loc shows, in thousandths of a km.
LocationValue(loc) ==
    LET p == CHOOSE q \in 1..Len(loc) : loc[q] = "."
        frac == SubSeq(loc, p + 1, Len(loc) - Len(sKm))
    IN  Number(SubSeq(loc, 1, p - 1)) * Scale
            + ( IF Len(frac) = 1 THEN Number(frac) * 100
                ELSE IF Len(frac) = 2 THEN Number(frac) * 10
                ELSE Number(frac) )

LocationInRange(loc) ==
    LocationValue(loc) >= LocationLow /\ LocationValue(loc) <= LocationHigh

RECURSIVE SumOf(_, _)
SumOf(f, dom) ==
    IF dom = {} THEN 0
    ELSE LET k == CHOOSE e \in dom : TRUE IN f[k] + SumOf(f, dom \ {k})

Ran == nRefresh > 0

(***************************************************************************)
(* Properties.                                                             *)
(***************************************************************************)
\* C1: after every run with unauth = true the maximum of the signal exceeds
\* 3.0 and detect_event has returned an event, which heads the log; this
\* holds for every pulse amplitude and noise draw, and for a run that
\* follows another triggering run just as for the first.
C1_UnauthAlwaysDetected ==
    (Ran /\ controls.unauth) =>
        /\ np_max(signal) > threshold
        /\ truthy(event)
        /\ events # <<>> /\ events[1] = event

\* Two triggering runs in a row, the second with the smallest pulse
\* and the noise at its lowest on every sample.
C1_Witness ==
    /\ Ran /\ controls.unauth
    /\ nTriggered >= 2 /\ nTriggered = nRefresh - 1
    /\ signal.amp = PulseBase * Scale
    /\ signal.noise = <<-(NoiseScale * MaxSigma), -(NoiseScale * MaxSigma)>>
    /\ truthy(event)

\* C2: a run with unauth = false does not trigger: the maximum of the signal
\* stays at or below 3.0, detect_event returns None, the 'System Stable'
\* message is written and the log is left as it was.
C2_StableWhenNoPulse ==
    [][ ~controls'.unauth =>
            /\ signal'.amp = 0
            /\ np_max(signal') <= threshold
            /\ event' = None
            /\ ui'.success /\ ~ui'.error
            /\ events' = events ]_vars

\* A run without the pulse, the noise at its highest on every sample, that
\* follows a triggering run and leaves its event in the log.
C2_Witness ==
    /\ Ran /\ ~controls.unauth
    /\ signal.noise = <<NoiseScale * MaxSigma, NoiseScale * MaxSigma>>
    /\ event = None /\ ui.success
    /\ Len(events) = 1 /\ nRefresh = 3

\* C3: the log is empty when the session starts; after any runs its length
\* is the number of runs that triggered, and its first element is the
\* event of the latest run that triggered.
C3_LogCountsTriggersNewestFirst ==
    /\ nRefresh = 0 => events = <<>>
    /\ Len(events) = nTriggered
    /\ nTriggered > 0 => events[1] = lastEvent

\* Two events logged at different seconds, the later one first.
C3_Witness ==
    /\ Len(events) = 2 /\ events[1] # events[2]
    /\ events[1].time # events[2].time
    /\ events[1] = lastEvent /\ nTriggered = 2

\* C4: reading the exported file back gives the header time, substation,
\* feeder, location, status and one row for each logged event, in the log's
\* order, with the log's field values.
C4_CsvRoundTrip ==
    (Ran /\ ui.csv # None) =>
        LET back == read_csv(ui.csv)
        IN  /\ back.columns = <<sTime, sSubstation, sFeeder, sLocation, sStatus>>
            /\ Len(back.rows) = Len(events)
            /\ \A i \in 1..Len(events) :
                   back.rows[i] =
                       <<events[i].time, events[i].substation, events[i].feeder,
                         events[i].location, events[i].status>>

\* An export of two events that differ in feeder, substation and location.
C4_Witness ==
    /\ Ran /\ ui.csv # None
    /\ Len(events) = 2
    /\ events[1].feeder # events[2].feeder
    /\ events[1].substation # events[2].substation
    /\ events[1].location # events[2].location

\* C5 as stated: every logged location is a number with exactly two digits
\* after the point, then " km", with the number in [0.5, 2.5].
C5_LocationTwoDecimals ==
    \A i \in 1..Len(events) :
        LocationShape(events[i].location, 2) /\ LocationInRange(events[i].location)

\* C5 as amended: every logged location is a number with one or two digits
\* after the point, two only when the second is not zero, then " km", with
\* the number in [0.5, 2.5].
C5_LocationAtMostTwoDecimals ==
    \A i \in 1..Len(events) :
        LET loc == events[i].location
        IN  /\ LocationShape(loc, 1) \/ LocationShape(loc, 2)
            /\ LocationShape(loc, 2) => loc[Len(loc) - Len(sKm)] # "0"
            /\ LocationInRange(loc)

\* A log holding a location written with one digit after the point and one
\* written with two.
C5_Witness ==
    /\ Len(events) = 2
    /\ LocationShape(events[1].location, 1)
    /\ LocationValue(events[1].location) = LocationHigh
    /\ LocationShape(events[2].location, 2)

\* C6: the signal has window length x sample rate samples (0.04 s x fs), taken
\* at times evenly spaced over [0, 0.04), 0.04 itself not being one of
\* them, whether or not the pulse is injected.
C6_SampleCountIsWindowTimesRate ==
    Ran =>
        /\ signal.n = (WindowMs * fs) \div Scale
        /\ t(0) = 0
        /\ t(signal.n - 1) < WindowUs

\* C7: rms_vals has (length of the signal - 500 + 1) values, none of them
\* negative.
C7_RmsLengthAndSign ==
    (Ran /\ rms_vals # None) =>
        /\ rms_vals.len = signal.n - 500 + 1
        /\ rms_vals.at \in 0..(rms_vals.len - 1)
        /\ rms_vals.val >= 0

\* The last value of rms_vals, and a window that the pulse covers, read
\* from a signal with the pulse.
C7_Witness ==
    /\ Ran /\ rms_vals # None
    /\ controls.unauth
    /\ rms_vals.at \in {rms_vals.len - 1, PulseStart}
    /\ rms_vals.val > 0

\* C8: a run writes exactly one of the error and the 'System Stable'
\* message, the error exactly when an event was detected; the SMS text
\* exactly when an event was detected and send_sms is on; the siren text
\* exactly when an event was detected and sound_alarm is on; and the event is
\* logged exactly when it was detected, whatever the two toggles are.
C8_AlertsFollowEventAndToggles ==
    [][ /\ ui'.error # ui'.success
        /\ ui'.error <=> truthy(event')
        /\ ui'.sms <=> (truthy(event') /\ controls'.send_sms)
        /\ ui'.siren <=> (truthy(event') /\ controls'.sound_alarm)
        /\ events' = IF truthy(event') THEN <<event'>> \o events ELSE events ]_vars

\* An event detected and logged with both alerts switched off, after a run
\* without an event.
C8_Witness ==
    /\ Ran /\ truthy(event)
    /\ ~controls.send_sms /\ ~controls.sound_alarm
    /\ ui.error /\ ~ui.sms /\ ~ui.siren
    /\ events # <<>> /\ events[1] = event

\* C9: a run leaves the log as it was or puts one new record in front of
\* it: the records already there stay, in their order, and the log never
\* gets shorter.
C9_LogOnlyGrowsAtFront ==
    [][ \/ events' = events
        \/ /\ Len(events') = Len(events) + 1
           /\ Tail(events') = events ]_vars

\* A second record put in front of a first one.
C9_Witness ==
    /\ Len(events) = 2 /\ truthy(event) /\ events[1] = event
    /\ events[2] # event

\* C10: what a run draws below the alerts is drawn from the log with that
\* run's event already in it: the table and the export are there exactly
\* when the log is not empty ('No events detected yet.' otherwise), they
\* show the whole log, the feeder counts are there exactly when the log is
\* not empty and show_heatmap is on, and they add up to the log's length.
C10_HistoryShowsThisRunsEvent ==
    Ran =>
        /\ (ui.table # None) <=> (events # <<>>)
        /\ (ui.csv # None) <=> (events # <<>>)
        /\ ui.no_events <=> (events = <<>>)
        /\ (ui.feeder_counts # None) <=> (events # <<>> /\ controls.show_heatmap)
        /\ events # <<>> =>
               /\ ui.table = DataFrame(events)
               /\ ui.csv = export(ui.table)
        /\ truthy(event) => ui.table.rows[1] = row_of(event)
        /\ ui.feeder_counts # None =>
               /\ SumOf(ui.feeder_counts, DOMAIN ui.feeder_counts) = Len(events)
               /\ truthy(event) =>
                      /\ event.feeder \in DOMAIN ui.feeder_counts
                      /\ ui.feeder_counts[event.feeder] >= 1

\* The session's first event, drawn in the run that detected it.
C10_Witness ==
    /\ Ran /\ truthy(event)
    /\ Len(events) = 1
    /\ controls.show_heatmap
    /\ ui.table # None /\ ui.feeder_counts # None
=============================================================================
